---- MODULE Spec2Model ----
(***************************************************************************)
(* Model of KotlinTestDiscovery (testDiscovery.ts): the test tree store,   *)
(* the discovery engine (discoverAllTests, findKotlinTestFiles,            *)
(* resolveTestsInFile) and the run handler, on the single-threaded event   *)
(* loop of the extension host.  One action is one synchronous segment of   *)
(* an async function: it runs from one await (or the call) to the next.    *)
(*                                                                         *)
(* Strings are TLA+ strings; positions are 1-based where the source is     *)
(* 0-based, so JS index i is position i+1 here.                            *)
(***************************************************************************)
EXTENDS Integers, Sequences, FiniteSets, TLC

-----------------------------------------------------------------------------
(* String primitives of the JavaScript runtime used by the source.         *)

\* s[i] as a one-character string, "" outside the string
CharAt(s, i) == IF i >= 1 /\ i <= Len(s) THEN SubSeq(s, i, i) ELSE ""

\* s.substring(i-1): the suffix of s that starts at position i
SubstringFrom(s, i) == IF i > Len(s) THEN "" ELSE SubSeq(s, i, Len(s))

\* s.startsWith(sub, i-1)
StartsWithAt(s, sub, i) ==
    /\ i >= 1
    /\ i + Len(sub) - 1 <= Len(s)
    /\ SubSeq(s, i, i + Len(sub) - 1) = sub

StartsWith(s, sub) == StartsWithAt(s, sub, 1)

EndsWith(s, sub) == StartsWithAt(s, sub, Len(s) - Len(sub) + 1)

Includes(s, sub) == \E i \in 1..(Len(s) + 1) : StartsWithAt(s, sub, i)

\* s.indexOf(sub, from-1) + 1, and 0 when JS returns -1
IndexOfFrom(s, sub, from) ==
    LET hits == {i \in from..(Len(s) + 1) : StartsWithAt(s, sub, i)}
    IN  IF hits = {} THEN 0 ELSE CHOOSE i \in hits : \A j \in hits : i <= j

IndexOf(s, sub) == IndexOfFrom(s, sub, 1)

\* s.split(sep) for a one-character separator
RECURSIVE Split(_, _)
Split(s, sep) ==
    LET i == IndexOf(s, sep)
    IN  IF i = 0 THEN <<s>>
        ELSE <<SubSeq(s, 1, i - 1)>> \o Split(SubstringFrom(s, i + 1), sep)

\* path.basename and path.join on POSIX paths without "." or ".." segments
RECURSIVE basename(_)
basename(p) ==
    LET i == IndexOf(p, "/")
    IN  IF i = 0 THEN p ELSE basename(SubstringFrom(p, i + 1))

pathJoin(dir, name) == dir \o "/" \o name

\* the regular expression classes \w and \s over the characters the inputs use
WordChars ==
    {"a","b","c","d","e","f","g","h","i","j","k","l","m","n","o","p","q","r","s",
     "t","u","v","w","x","y","z","A","B","C","D","E","F","G","H","I","J","K","L",
     "M","N","O","P","Q","R","S","T","U","V","W","X","Y","Z","0","1","2","3","4",
     "5","6","7","8","9","_"}

SpaceChars == {" ", "\n", "\t"}

\* first position >= i whose character is not in the class (greedy \s*, \w*)
RECURSIVE SkipClass(_, _, _)
SkipClass(s, i, class) ==
    IF CharAt(s, i) \in class THEN SkipClass(s, i + 1, class) ELSE i

-----------------------------------------------------------------------------
(* The two regular expressions of resolveTestsInFile.  A match is a record *)
(* [ok, name, index, last]: capture group 1, the position of the match and *)
(* the position of its last character (lastIndex of the /g regex is last,  *)
(* in JS 0-based terms).                                                   *)

NoMatch == [ok |-> FALSE, name |-> "", index |-> 0, last |-> 0]

\* /class\s+(\w+)(?:\s*:\s*\w+(?:<[^>]*>)?)?\s*{/ anchored at position i
ClassMatchAt(s, i) ==
    LET nameStart == SkipClass(s, i + 5, SpaceChars)
        nameEnd   == SkipClass(s, nameStart, WordChars)
        colon     == SkipClass(s, nameEnd, SpaceChars)
        superStart == SkipClass(s, colon + 1, SpaceChars)
        superEnd  == SkipClass(s, superStart, WordChars)
        gt        == IndexOfFrom(s, ">", superEnd + 1)
        withGeneric == SkipClass(s, gt + 1, SpaceChars)
        noGeneric == SkipClass(s, superEnd, SpaceChars)
        noSuper   == SkipClass(s, nameEnd, SpaceChars)
        hit(last) == [ok |-> TRUE, name |-> SubSeq(s, nameStart, nameEnd - 1),
                      index |-> i, last |-> last]
    IN  IF ~(StartsWithAt(s, "class", i) /\ nameStart > i + 5 /\ nameEnd > nameStart)
        THEN NoMatch
        ELSE IF /\ CharAt(s, colon) = ":"
                /\ superEnd > superStart
                /\ CharAt(s, superEnd) = "<"
                /\ gt > 0
                /\ CharAt(s, withGeneric) = "{"
        THEN hit(withGeneric)
        ELSE IF /\ CharAt(s, colon) = ":"
                /\ superEnd > superStart
                /\ CharAt(s, noGeneric) = "{"
        THEN hit(noGeneric)
        ELSE IF CharAt(s, noSuper) = "{"
        THEN hit(noSuper)
        ELSE NoMatch

\* classRegex.exec(s) with lastIndex = from-1: the first match at or after from
RECURSIVE ClassExec(_, _)
ClassExec(s, from) ==
    IF from > Len(s) THEN NoMatch
    ELSE IF ClassMatchAt(s, from).ok THEN ClassMatchAt(s, from)
    ELSE ClassExec(s, from + 1)

\* \s+(\w+)\s*\([^)]*\) anchored at position a, right after the fun keyword
FunTailAt(s, a, at) ==
    LET nameStart == SkipClass(s, a, SpaceChars)
        nameEnd   == SkipClass(s, nameStart, WordChars)
        paren     == SkipClass(s, nameEnd, SpaceChars)
        close     == IndexOfFrom(s, ")", paren + 1)
    IN  IF /\ nameStart > a
           /\ nameEnd > nameStart
           /\ CharAt(s, paren) = "("
           /\ close > 0
        THEN [ok |-> TRUE, name |-> SubSeq(s, nameStart, nameEnd - 1),
              index |-> at, last |-> close]
        ELSE NoMatch

\* [^]*?(?:fun|suspend fun)...: the lazy quantifier tries each position j in turn
RECURSIVE LazyFunFrom(_, _, _)
LazyFunFrom(s, j, at) ==
    IF j > Len(s) THEN NoMatch
    ELSE IF StartsWithAt(s, "fun", j) /\ FunTailAt(s, j + 3, at).ok
    THEN FunTailAt(s, j + 3, at)
    ELSE IF StartsWithAt(s, "suspend fun", j) /\ FunTailAt(s, j + 11, at).ok
    THEN FunTailAt(s, j + 11, at)
    ELSE LazyFunFrom(s, j + 1, at)

\* /@Test[^]*?(?:fun|suspend fun)\s+(\w+)\s*\([^)]*\)/ anchored at position i
MethodMatchAt(s, i) ==
    IF StartsWithAt(s, "@Test", i) THEN LazyFunFrom(s, i + 5, i) ELSE NoMatch

\* methodRegex.exec(s) with lastIndex = from-1
RECURSIVE MethodExec(_, _)
MethodExec(s, from) ==
    IF from > Len(s) THEN NoMatch
    ELSE IF MethodMatchAt(s, from).ok THEN MethodMatchAt(s, from)
    ELSE MethodExec(s, from + 1)

\* the brace counting loop bounded by classContent.length - 1: it stops one
\* character before the end of the content
RECURSIVE BraceScan_StopsShort(_, _, _)
BraceScan_StopsShort(classContent, braceCount, pos) ==
    IF ~(braceCount > 0 /\ pos - 1 < Len(classContent) - 1) THEN pos - 1
    ELSE IF CharAt(classContent, pos) = "{"
    THEN BraceScan_StopsShort(classContent, braceCount + 1, pos + 1)
    ELSE IF CharAt(classContent, pos) = "}"
    THEN BraceScan_StopsShort(classContent, braceCount - 1, pos + 1)
    ELSE BraceScan_StopsShort(classContent, braceCount, pos + 1)

\* the brace-counting loop: endPos (JS, 0-based) reached from endPos = pos - 1
RECURSIVE BraceScan(_, _, _)
BraceScan(classContent, braceCount, pos) ==
    IF ~(braceCount > 0 /\ pos - 1 < Len(classContent)) THEN pos - 1
    ELSE IF CharAt(classContent, pos) = "{"
    THEN BraceScan(classContent, braceCount + 1, pos + 1)
    ELSE IF CharAt(classContent, pos) = "}"
    THEN BraceScan(classContent, braceCount - 1, pos + 1)
    ELSE BraceScan(classContent, braceCount, pos + 1)

\* the text in which the methods of the class matched at m are looked for
ClassContent(content, m) ==
    LET classContent == SubstringFrom(content, m.index)
        openBraces   == IndexOf(classContent, "{") - 1
    IN  IF openBraces # -1
        THEN SubSeq(classContent, 1, BraceScan(classContent, 1, openBraces + 2))
        ELSE classContent

\* the names the inner while loop over methodRegex.exec(classContent) yields
RECURSIVE MethodNames(_, _)
MethodNames(classContent, from) ==
    LET m == MethodExec(classContent, from)
    IN  IF ~m.ok THEN <<>>
        ELSE <<m.name>> \o MethodNames(classContent, m.last + 1)

\* the outer while loop: one [className, methodNames] per class whose name
\* includes "Test", in source order
RECURSIVE ScanDeclarations(_, _)
ScanDeclarations(content, from) ==
    LET m == ClassExec(content, from)
    IN  IF ~m.ok THEN <<>>
        ELSE (IF Includes(m.name, "Test")
              THEN <<[className |-> m.name,
                      methodNames |-> MethodNames(ClassContent(content, m), 1)]>>
              ELSE <<>>)
             \o ScanDeclarations(content, m.last + 1)

\* the content markers without the annotation token
HasTestMarker_ImportsOnly(content) ==
    \/ Includes(content, "import org.junit")
    \/ Includes(content, "import kotlin.test")
    \/ Includes(content, "import io.kotest")

\* line 97: the content markers
HasTestMarker(content) ==
    \/ Includes(content, "@Test")
    \/ Includes(content, "import org.junit")
    \/ Includes(content, "import kotlin.test")
    \/ Includes(content, "import io.kotest")

-----------------------------------------------------------------------------
(* The environment: one workspace root with a fixed directory layout, and  *)
(* files whose content the user edits.                                     *)

Root == "/w"

\* content of a path that does not exist: readFile rejects
Absent == "<absent>"

CPlain  == "class FooTest { @Test fun testBar() {} }"
CImport == "import org.junit.Test\nclass FooTest { @Test fun testBar() {} }"
CNested == "class OuterTest { @Test fun outer() {} class InnerTest { @Test fun inner() {} } }"
CTwo    == "class BarTest { @Test fun a() {} @Test fun b() {} }"
CEmpty  == "import kotlin.test.Test\nclass EmptyTest { }"
CHelper == "class HelperTest { @Test fun helps() {} }"
CHid    == "import io.kotest.core.spec\nclass HidTest { @Test fun hid() {} }"
CGen    == "import org.junit.Test\nclass GenTest { @Test fun gen() {} }"
CScript == "import org.junit.Test\nval x = 1"
COpen   == "class OpenTest { @Test fun open()"

FooPath    == pathJoin(Root, "FooTest.kt")
BarPath    == pathJoin(pathJoin(Root, "src"), "BarTest.kt")
HelperPath == pathJoin(Root, "Helper.kt")
HidPath    == pathJoin(pathJoin(Root, ".hid"), "HidTest.kt")
GenPath    == pathJoin(pathJoin(Root, "build"), "GenTest.kt")
ScriptPath == pathJoin(Root, "settings.kts")
SuitePath  == pathJoin(Root, "SuiteTests.kts")

FilePaths == {FooPath, BarPath, HelperPath, HidPath, GenPath, ScriptPath}

\* the files the user edits while the extension runs, and what they may hold
EditedPaths == {FooPath, BarPath}

ContentsOf(p) ==
    IF p = FooPath THEN {CPlain, CImport, CNested}
    ELSE IF p = BarPath THEN {CTwo, CEmpty}
    ELSE {}

\* readdir(dir, {withFileTypes: true}): the directories, and the file names
\* that may exist, in the order the directory lists them
DirListing(dir) ==
    IF dir = Root
    THEN <<[name |-> ".hid", isDir |-> TRUE], [name |-> "FooTest.kt", isDir |-> FALSE],
           [name |-> "Helper.kt", isDir |-> FALSE], [name |-> "build", isDir |-> TRUE],
           [name |-> "settings.kts", isDir |-> FALSE], [name |-> "src", isDir |-> TRUE]>>
    ELSE IF dir = pathJoin(Root, ".hid")
    THEN <<[name |-> "HidTest.kt", isDir |-> FALSE]>>
    ELSE IF dir = pathJoin(Root, "src")
    THEN <<[name |-> "BarTest.kt", isDir |-> FALSE]>>
    ELSE IF dir = pathJoin(Root, "build")
    THEN <<[name |-> "GenTest.kt", isDir |-> FALSE]>>
    ELSE <<>>

AllContents ==
    UNION {ContentsOf(p) : p \in EditedPaths} \cup {CHelper, CHid, CGen, CScript, COpen}

\* the scanner and the marker test on every content of the model, computed once
ScanTable   == [c \in AllContents |-> ScanDeclarations(c, 1)]
MarkerTable == [c \in AllContents |-> HasTestMarker(c)]

-----------------------------------------------------------------------------
(* Bounds of the model.                                                    *)

MaxFsChanges == 2    \* file creations, edits and deletions by the user
MaxTasks     == 2    \* resolveTestsInFile calls suspended at the same time
MaxDiscover  == 1    \* discoverAllTests calls
MaxInclude   == 2    \* items in request.include
MaxExclude   == 1    \* items in request.exclude

-----------------------------------------------------------------------------
VARIABLES
    fs,                 \* [FilePaths -> content or Absent]
    workspaceFolders,   \* [defined, folders]: workspace.workspaceFolders
    testItems,          \* this.testItems: id -> TestItem
    fileToTestItemsMap, \* this.fileToTestItemsMap: path -> <<ids>>
    controllerItems,    \* this.testController.items: the ids of the root items, in order
    watcherEvents,      \* file system events not yet delivered to the watcher
    resolves,           \* suspended resolveTestsInFile calls, by slot
    finds,              \* findKotlinTestFiles calls suspended at readdir
    reads,              \* forEach callbacks suspended at readFile (line 94)
    testFiles,          \* the testFiles array of each findKotlinTestFiles call
    nextFind,           \* number of findKotlinTestFiles calls made
    fsChanges,          \* number of user edits so far
    discovers,          \* number of discoverAllTests calls so far
    manifest,           \* names of the build manifests at the workspace root
    run,                \* the runHandler call in progress, or the last one
    probe,              \* one file handed to the classifier and the scanner
    sinceDiscover,      \* history: no file system event since discoverAllTests
    hist                \* history: per path, the last two completed rescans

vars == <<fs, workspaceFolders, testItems, fileToTestItemsMap, controllerItems,
          watcherEvents, resolves, finds, reads, testFiles, nextFind,
          fsChanges, discovers, manifest, run, probe, sinceDiscover, hist>>

runVars   == <<manifest, run, probe>>
storeVars == <<testItems, fileToTestItemsMap, controllerItems>>
findVars  == <<finds, reads, testFiles, nextFind>>

-----------------------------------------------------------------------------
(* The Tree Store.  A TestItem is [label, uri, parent, children]; children *)
(* is the TestItemCollection as the sequence of its ids in insertion       *)
(* order, and parent is the id of the collection's owner ("" for none).    *)
(* An item is addressed by its id: the newest object created under an id.  *)

FileId(filePath) == "kotlin-test:" \o filePath

Store(items, fileMap, roots) ==
    [testItems |-> items, fileToTestItemsMap |-> fileMap, controllerItems |-> roots]

CurrentStore == Store(testItems, fileToTestItemsMap, controllerItems)

EmptyMap == [k \in {} |-> <<>>]

MapDelete(f, k) == [j \in DOMAIN f \ {k} |-> f[j]]

SeqRange(q) == {q[i] : i \in 1..Len(q)}

\* createTestItem(id, label, uri, undefined)
createTestItem(st, id, label, uri) ==
    [st EXCEPT !.testItems =
        (id :> [label |-> label, uri |-> uri, parent |-> "", children |-> <<>>])
        @@ st.testItems]

\* parent.children.add(child): an item with the same id is replaced in place
childrenAdd(st, parentId, childId) ==
    [st EXCEPT !.testItems =
        [st.testItems EXCEPT
            ![parentId].children =
                IF childId \in SeqRange(@) THEN @ ELSE Append(@, childId),
            ![childId].parent = parentId]]

\* removeTestsForFile that forgets this.testItems.delete(item.id)
removeTestsForFile_KeepsItem(st, filePath) ==
    IF filePath \notin DOMAIN st.fileToTestItemsMap THEN st
    ELSE Store(st.testItems, MapDelete(st.fileToTestItemsMap, filePath),
               st.controllerItems)

\* removeTestsForFile(uri)
removeTestsForFile(st, filePath) ==
    IF filePath \notin DOMAIN st.fileToTestItemsMap THEN st
    ELSE LET fileItems == SeqRange(st.fileToTestItemsMap[filePath])
         IN  Store([id \in DOMAIN st.testItems \ fileItems |-> st.testItems[id]],
                   MapDelete(st.fileToTestItemsMap, filePath),
                   SelectSeq(st.controllerItems, LAMBDA id : id \notin fileItems))

\* getOrCreateFileTestItem that replaces the file index by a map holding the
\* new File item alone
getOrCreateFileTestItem_ResetsIndex(st, filePath) ==
    LET fileId == FileId(filePath)
    IN  IF fileId \in DOMAIN st.testItems THEN st
        ELSE [createTestItem(st, fileId, basename(filePath), filePath)
                EXCEPT !.fileToTestItemsMap = (filePath :> <<fileId>>)]

\* getOrCreateFileTestItem(uri): the store afterwards; the item is FileId(uri)
getOrCreateFileTestItem(st, filePath) ==
    LET fileId == FileId(filePath)
    IN  IF fileId \in DOMAIN st.testItems THEN st
        ELSE [createTestItem(st, fileId, basename(filePath), filePath)
                EXCEPT !.fileToTestItemsMap =
                    (filePath :> <<fileId>>) @@ st.fileToTestItemsMap]

\* the inner while loop with the Method id built from the File id:
\* `${fileItem.id}.${methodName}` in place of `${classItem.id}.${methodName}`
RECURSIVE AddMethods_UnderFileId(_, _, _, _)
AddMethods_UnderFileId(st, classId, methodNames, uri) ==
    IF methodNames = <<>> THEN st
    ELSE LET methodId == FileId(uri) \o "." \o Head(methodNames)
         IN  AddMethods_UnderFileId(
                 childrenAdd(createTestItem(st, methodId, Head(methodNames), uri),
                             classId, methodId),
                 classId, Tail(methodNames), uri)

\* the inner while loop of resolveTestsInFile: one Method item per match
RECURSIVE AddMethods(_, _, _, _)
AddMethods(st, classId, methodNames, uri) ==
    IF methodNames = <<>> THEN st
    ELSE LET methodId == classId \o "." \o Head(methodNames)
         IN  AddMethods(
                 childrenAdd(createTestItem(st, methodId, Head(methodNames), uri),
                             classId, methodId),
                 classId, Tail(methodNames), uri)

\* the outer while loop of resolveTestsInFile: one Class item per declaration
RECURSIVE AddClasses(_, _, _, _)
AddClasses(st, fileId, decls, uri) ==
    IF decls = <<>> THEN st
    ELSE LET className == Head(decls).className
             classId   == fileId \o "." \o className
         IN  AddClasses(
                 AddMethods(
                     childrenAdd(createTestItem(st, classId, className, uri),
                                 fileId, classId),
                     classId, Head(decls).methodNames, uri),
                 fileId, Tail(decls), uri)

\* resolveTestsInFile after readFile has resolved with content
BuildSubtree(st, filePath, content) ==
    AddClasses(getOrCreateFileTestItem(st, filePath), FileId(filePath),
               ScanTable[content], filePath)

\* the ids reachable from the File items the file index holds for filePath
RECURSIVE Descendants(_, _, _)
Descendants(items, ids, depth) ==
    IF depth = 0 \/ ids = {} THEN ids
    ELSE ids \cup Descendants(items,
                    UNION {SeqRange(items[id].children) : id \in ids \cap DOMAIN items},
                    depth - 1)

SubtreeIds(st, filePath) ==
    IF filePath \notin DOMAIN st.fileToTestItemsMap THEN {}
    ELSE Descendants(st.testItems, SeqRange(st.fileToTestItemsMap[filePath]), 2)
             \cap DOMAIN st.testItems

\* the subtree the Tree Store holds for filePath: its ids and their structure
SubtreeOf(st, filePath) ==
    [id \in SubtreeIds(st, filePath) |->
        [label |-> st.testItems[id].label, parent |-> st.testItems[id].parent,
         children |-> st.testItems[id].children]]

\* ids of the id index that belong to filePath by their prefix
IdsOfPath(st, filePath) ==
    {id \in DOMAIN st.testItems :
        id = FileId(filePath) \/ StartsWith(id, FileId(filePath) \o ".")}

-----------------------------------------------------------------------------
(* resolveTestsInFile, one action per synchronous segment.                 *)

IdleTask == [pc |-> "idle", path |-> "", content |-> "", clean |-> TRUE]

Slots == 1..MaxTasks

FreeSlots(rs) == {t \in DOMAIN rs : rs[t].pc = "idle"}

Pending(rs, p) == {t \in DOMAIN rs : rs[t].pc # "idle" /\ rs[t].path = p}

\* the call up to its await of readFile: lines 110-119
StartResolve(rs, t, filePath) ==
    [u \in DOMAIN rs |->
        IF u = t
        THEN [pc |-> "readFile", path |-> filePath, content |-> "",
              clean |-> Pending(rs, filePath) = {}]
        ELSE IF rs[u].path = filePath THEN [rs[u] EXCEPT !.clean = FALSE]
        ELSE rs[u]]

HasKotlinExtension(filePath) == EndsWith(filePath, ".kt") \/ EndsWith(filePath, ".kts")

\* the user creates, edits or deletes a file; the watcher will be notified
FsChange(p, c) ==
    /\ fsChanges < MaxFsChanges
    /\ ~(fs[p] = Absent /\ c = Absent)
    /\ fs' = [fs EXCEPT ![p] = c]
    /\ watcherEvents' = watcherEvents \cup {p}
    /\ fsChanges' = fsChanges + 1
    /\ sinceDiscover' = FALSE
    /\ UNCHANGED <<workspaceFolders, storeVars, resolves, findVars, discovers, hist,
                   runVars>>

\* onDidChange / onDidCreate / onDidDelete: resolveTestsInFile(uri) up to readFile
WatcherFire(p) ==
    /\ p \in watcherEvents
    /\ watcherEvents' = watcherEvents \ {p}
    /\ IF ~HasKotlinExtension(p)
       THEN UNCHANGED <<storeVars, resolves>>
       ELSE /\ FreeSlots(resolves) # {}
            /\ LET t  == CHOOSE u \in FreeSlots(resolves) : \A v \in FreeSlots(resolves) : u <= v
                   st == removeTestsForFile(CurrentStore, p)
               IN  /\ testItems' = st.testItems
                   /\ fileToTestItemsMap' = st.fileToTestItemsMap
                   /\ controllerItems' = st.controllerItems
                   /\ resolves' = StartResolve(resolves, t, p)
    /\ UNCHANGED <<fs, workspaceFolders, findVars, fsChanges, discovers,
                   sinceDiscover, hist, runVars>>

\* promises.readFile(filePath) reads the file: its content, or the rejection
ReadFile(t) ==
    /\ resolves[t].pc = "readFile"
    /\ resolves' = [resolves EXCEPT ![t].pc = "resume", ![t].content = fs[resolves[t].path]]
    /\ UNCHANGED <<fs, workspaceFolders, storeVars, watcherEvents, findVars,
                   fsChanges, discovers, sinceDiscover, hist, runVars>>

\* what the history keeps of a completed rescan
Completed(st, task) ==
    [content |-> task.content, clean |-> task.clean,
     tree |-> SubtreeOf(st, task.path),
     stale |-> IdsOfPath(st, task.path) \ SubtreeIds(st, task.path),
     indexed |-> task.path \in DOMAIN st.fileToTestItemsMap]

\* the continuation after readFile: lines 121-165
ResolveContinue(t) ==
    /\ resolves[t].pc = "resume"
    /\ LET task == resolves[t]
           st   == IF task.content = Absent THEN CurrentStore
                   ELSE BuildSubtree(CurrentStore, task.path, task.content)
       IN  /\ testItems' = st.testItems
           /\ fileToTestItemsMap' = st.fileToTestItemsMap
           /\ controllerItems' = st.controllerItems
           /\ hist' = [hist EXCEPT ![task.path] =
                          IF Len(@) < 2 THEN Append(@, Completed(st, task))
                          ELSE <<@[2], Completed(st, task)>>]
    /\ resolves' = [resolves EXCEPT ![t] = IdleTask]
    /\ UNCHANGED <<fs, workspaceFolders, watcherEvents, findVars, fsChanges,
                   discovers, sinceDiscover, runVars>>

-----------------------------------------------------------------------------
(* discoverAllTests and findKotlinTestFiles.  Every forEach callback is an *)
(* async function nobody awaits: it runs to its first await inside the     *)
(* forEach, and the rest runs when that I/O completes.  A promise resolved *)
(* by a return is consumed by the awaiting caller in the same turn of the  *)
(* event loop, before any I/O completion, so the return of                 *)
(* findKotlinTestFiles and its caller's continuation are one step.         *)

\* line 88: the directories findKotlinTestFiles descends into
ShouldDescend(entry) ==
    entry.isDir /\ StartsWith(entry.name, ".") /\ ~StartsWith(entry.name, "build")

\* line 92: the files whose content is read (&& binds tighter than ||)
IsKotlinTestFileName(entry) ==
    /\ ~entry.isDir
    /\ \/ EndsWith(entry.name, ".kt")
       \/ /\ EndsWith(entry.name, ".kts")
          /\ (Includes(entry.name, "Test") \/ Includes(entry.name, "Tests"))

\* findKotlinTestFiles(dir) up to its await of readdir: lines 80-83
StartFind(d, dir, caller) ==
    [d EXCEPT !.nextFind = @ + 1,
              !.finds = @ \cup {[id |-> d.nextFind + 1, dir |-> dir, caller |-> caller]},
              !.testFiles = ((d.nextFind + 1) :> <<>>) @@ @]

\* files.forEach(async file => ...), each callback up to its first await
RECURSIVE ForEachEntry(_, _, _, _)
ForEachEntry(d, dir, entries, owner) ==
    IF entries = <<>> THEN d
    ELSE LET file     == Head(entries)
             fullPath == pathJoin(dir, file.name)
             d1 == IF ShouldDescend(file) THEN StartFind(d, fullPath, owner)
                   ELSE IF IsKotlinTestFileName(file)
                   THEN [d EXCEPT !.reads = @ \cup {[path |-> fullPath, into |-> owner]}]
                   ELSE d
         IN  ForEachEntry(d1, dir, Tail(entries), owner)

\* the entries readdir resolves with: the directories and the existing files
Readdir(dir) ==
    SelectSeq(DirListing(dir), LAMBDA e : e.isDir \/ fs[pathJoin(dir, e.name)] # Absent)

\* testFiles.forEach(async file => await this.resolveTestsInFile(Uri.file(file)))
RECURSIVE ResolveAll(_, _)
ResolveAll(w, files) ==
    IF files = <<>> THEN w
    ELSE LET t == CHOOSE u \in FreeSlots(w.resolves) : \A v \in FreeSlots(w.resolves) : u <= v
         IN  ResolveAll([store |-> removeTestsForFile(w.store, Head(files)),
                         resolves |-> StartResolve(w.resolves, t, Head(files))],
                        Tail(files))

\* discoverAllTests(): lines 64-78, each folder callback up to readdir
RECURSIVE StartFolders(_, _)
StartFolders(d, folders) ==
    IF folders = <<>> THEN d
    ELSE StartFolders(StartFind(d, Head(folders), 0), Tail(folders))

DiscoverAllTests ==
    /\ discovers < MaxDiscover
    /\ discovers' = discovers + 1
    /\ testItems' = EmptyMap
    /\ fileToTestItemsMap' = EmptyMap
    /\ controllerItems' = <<>>
    /\ LET d0 == [finds |-> finds, reads |-> reads, testFiles |-> testFiles,
                  nextFind |-> nextFind]
           d  == IF ~workspaceFolders.defined THEN d0
                 ELSE StartFolders(d0, workspaceFolders.folders)
       IN  /\ finds' = d.finds
           /\ reads' = d.reads
           /\ testFiles' = d.testFiles
           /\ nextFind' = d.nextFind
    /\ sinceDiscover' = TRUE
    /\ UNCHANGED <<fs, workspaceFolders, watcherEvents, resolves, fsChanges, hist,
                   runVars>>

\* readdir resolves: lines 83-103, then the caller's continuation
\* (lines 74-76 for discoverAllTests, line 91 for an enclosing directory)
ReaddirDone(f) ==
    /\ f \in finds
    /\ LET d0 == [finds |-> finds \ {f}, reads |-> reads, testFiles |-> testFiles,
                  nextFind |-> nextFind]
           d  == ForEachEntry(d0, f.dir, Readdir(f.dir), f.id)
           returned == d.testFiles[f.id]
           w  == ResolveAll([store |-> CurrentStore, resolves |-> resolves],
                            IF f.caller = 0 THEN returned ELSE <<>>)
       IN  /\ f.caller = 0 => Len(returned) <= Cardinality(FreeSlots(resolves))
           /\ finds' = d.finds
           /\ reads' = d.reads
           /\ nextFind' = d.nextFind
           /\ testFiles' = IF f.caller = 0 THEN d.testFiles
                           ELSE [d.testFiles EXCEPT ![f.caller] = @ \o returned]
           /\ testItems' = w.store.testItems
           /\ fileToTestItemsMap' = w.store.fileToTestItemsMap
           /\ controllerItems' = w.store.controllerItems
           /\ resolves' = w.resolves
    /\ UNCHANGED <<fs, workspaceFolders, watcherEvents, fsChanges, discovers,
                   sinceDiscover, hist, runVars>>

\* readFile of line 94 resolves: lines 94-99 (a rejection ends the callback)
ClassifyReadDone(r) ==
    /\ r \in reads
    /\ reads' = reads \ {r}
    /\ testFiles' = IF fs[r.path] # Absent /\ MarkerTable[fs[r.path]]
                    THEN [testFiles EXCEPT ![r.into] = Append(@, r.path)]
                    ELSE testFiles
    /\ UNCHANGED <<fs, workspaceFolders, storeVars, watcherEvents, resolves, finds,
                   nextFind, fsChanges, discovers, sinceDiscover, hist, runVars>>

-----------------------------------------------------------------------------
(* runHandler.  The while loop runs without suspension until a leaf        *)
(* reaches the await of fsExists; a run holds the TestItem objects of its  *)
(* request, here the items as they were when the request was made.         *)

\* pc is "none" before the request; noFolder and stopped are history: the
\* request was made with no workspace folder open, and the number of events
\* reported when the token was cancelled
NoRun ==
    [pc |-> "none", included |-> FALSE, include |-> <<>>, exclude |-> {},
     items |-> EmptyMap, roots |-> <<>>, queue |-> <<>>, test |-> "",
     cancelled |-> FALSE, events |-> <<>>, sent |-> <<>>,
     noFolder |-> FALSE, stopped |-> 0]

\* isAncestorOf(ancestor, descendant): lines 260-269
RECURSIVE isAncestorOf(_, _, _)
isAncestorOf(items, ancestor, descendant) ==
    IF descendant \notin DOMAIN items \/ items[descendant].parent = "" THEN FALSE
    ELSE IF items[descendant].parent = ancestor THEN TRUE
    ELSE isAncestorOf(items, ancestor, items[descendant].parent)

Event(op, id, message) == [op |-> op, id |-> id, message |-> message]

NoWorkspaceMessage == "Test execution failed: Error: No workspace folder found!"

NotGradleMessage ==
    "Test execution failed: Error: Error running tests: Only Gradle workspaces are supported for now!"

\* lines 238 and 244: the selector recovered from the id, and the command sent
GradleCommand(id) ==
    LET parts      == Split(id, "#")
        testClass  == parts[1]
        testMethod == IF Len(parts) >= 2 THEN parts[2] ELSE ""
    IN  "./gradlew test --tests " \o testClass
            \o (IF testMethod # "" THEN "." \o testMethod ELSE "")

\* the while loop without the test of token.isCancellationRequested
RECURSIVE RunLoop_IgnoresToken(_, _)
RunLoop_IgnoresToken(r, folders) ==
    IF ~(Len(r.queue) > 0) THEN [r EXCEPT !.pc = "ended", !.test = ""]
    ELSE LET test == Head(r.queue)
             r1   == [r EXCEPT !.queue = Tail(@)]
         IN  IF \E excludedTest \in r.exclude : isAncestorOf(r.items, excludedTest, test)
             THEN RunLoop_IgnoresToken(r1, folders)
             ELSE IF Len(r.items[test].children) > 0
             THEN RunLoop_IgnoresToken([r1 EXCEPT !.queue = @ \o r.items[test].children],
                                       folders)
             ELSE IF ~folders.defined
             THEN RunLoop_IgnoresToken([r1 EXCEPT !.events = @ \o
                                           <<Event("started", test, ""),
                                             Event("failed", test, NoWorkspaceMessage)>>],
                                       folders)
             ELSE [r1 EXCEPT !.events = Append(@, Event("started", test, "")),
                             !.test = test, !.pc = "fsExists1"]

\* the while loop of lines 216-255 from its test to the next await, or to
\* run.end() of line 257
RECURSIVE RunLoop(_, _)
RunLoop(r, folders) ==
    IF ~(Len(r.queue) > 0 /\ ~r.cancelled) THEN [r EXCEPT !.pc = "ended", !.test = ""]
    ELSE LET test == Head(r.queue)
             r1   == [r EXCEPT !.queue = Tail(@)]
         IN  IF \E excludedTest \in r.exclude : isAncestorOf(r.items, excludedTest, test)
             THEN RunLoop(r1, folders)
             ELSE IF Len(r.items[test].children) > 0
             THEN RunLoop([r1 EXCEPT !.queue = @ \o r.items[test].children], folders)
             ELSE IF ~folders.defined
             THEN RunLoop([r1 EXCEPT !.events = @ \o
                              <<Event("started", test, ""),
                                Event("failed", test, NoWorkspaceMessage)>>],
                          folders)
             ELSE [r1 EXCEPT !.events = Append(@, Event("started", test, "")),
                             !.test = test, !.pc = "fsExists1"]

\* the dispatch with run.passed(test) after the try statement: an item whose
\* dispatch failed is reported failed and then passed
Dispatch_PassedAfterCatch(r, hasGradleFile, folders) ==
    RunLoop(IF hasGradleFile
            THEN [r EXCEPT !.sent = Append(@, GradleCommand(r.test)),
                           !.events = Append(@, Event("passed", r.test, ""))]
            ELSE [r EXCEPT !.events = @ \o <<Event("failed", r.test, NotGradleMessage),
                                             Event("passed", r.test, "")>>],
            folders)

\* the dispatch with the missing build file rethrown out of the loop: the item
\* is failed and the run ends
Dispatch_AbortsOnFailure(r, hasGradleFile, folders) ==
    IF hasGradleFile
    THEN RunLoop([r EXCEPT !.sent = Append(@, GradleCommand(r.test)),
                           !.events = Append(@, Event("passed", r.test, ""))],
                 folders)
    ELSE [r EXCEPT !.events = Append(@, Event("failed", r.test, NotGradleMessage)),
                   !.pc = "ended", !.test = ""]

\* lines 238-254 once hasGradleFile is known, then the loop again
Dispatch(r, hasGradleFile, folders) ==
    RunLoop(IF hasGradleFile
            THEN [r EXCEPT !.sent = Append(@, GradleCommand(r.test)),
                           !.events = Append(@, Event("passed", r.test, ""))]
            ELSE [r EXCEPT !.events = Append(@, Event("failed", r.test, NotGradleMessage))],
            folders)

\* the queue of lines 208-214
SeedQueue(included, include, roots) == IF included THEN include ELSE roots

\* runHandler(request, token) up to its first await: lines 202-236
RunHandler(included, include, exclude) ==
    /\ run.pc = "none"
    /\ SeqRange(include) \cup exclude \subseteq DOMAIN testItems
    /\ LET roots == controllerItems
       IN  run' = RunLoop([NoRun EXCEPT !.included = included, !.include = include,
                                        !.exclude = exclude, !.items = testItems,
                                        !.roots = roots,
                                        !.noFolder = ~workspaceFolders.defined,
                                        !.queue = SeedQueue(included, include, roots)],
                          workspaceFolders)
    /\ UNCHANGED <<fs, workspaceFolders, storeVars, watcherEvents, resolves, findVars,
                   fsChanges, discovers, manifest, probe, sinceDiscover, hist>>

fsExists(name) == name \in manifest

\* fsExists(build.gradle) resolves: line 236, left operand of ||
FsExistsGradle ==
    /\ run.pc = "fsExists1"
    /\ run' = IF fsExists("build.gradle") THEN Dispatch(run, TRUE, workspaceFolders)
              ELSE [run EXCEPT !.pc = "fsExists2"]
    /\ UNCHANGED <<fs, workspaceFolders, storeVars, watcherEvents, resolves, findVars,
                   fsChanges, discovers, manifest, probe, sinceDiscover, hist>>

\* fsExists(build.gradle.kts) resolves: line 236, right operand of ||
FsExistsGradleKts ==
    /\ run.pc = "fsExists2"
    /\ run' = Dispatch(run, fsExists("build.gradle.kts"), workspaceFolders)
    /\ UNCHANGED <<fs, workspaceFolders, storeVars, watcherEvents, resolves, findVars,
                   fsChanges, discovers, manifest, probe, sinceDiscover, hist>>

\* the host raises the cancellation token while the run is suspended
CancelRun ==
    /\ run.pc \in {"fsExists1", "fsExists2"}
    /\ ~run.cancelled
    /\ run' = [run EXCEPT !.cancelled = TRUE, !.stopped = Len(run.events)]
    /\ UNCHANGED <<fs, workspaceFolders, storeVars, watcherEvents, resolves, findVars,
                   fsChanges, discovers, manifest, probe, sinceDiscover, hist>>

\* the user closes the workspace folder
CloseWorkspace ==
    /\ workspaceFolders.defined
    /\ workspaceFolders' = [defined |-> FALSE, folders |-> <<>>]
    /\ UNCHANGED <<fs, storeVars, watcherEvents, resolves, findVars, fsChanges,
                   discovers, manifest, run, probe, sinceDiscover, hist>>

-----------------------------------------------------------------------------
(* The classifier of findKotlinTestFiles and the scanner of                *)
(* resolveTestsInFile applied to one file, apart from the event loop.      *)

NoProbe ==
    [path |-> "", content |-> "", classified |-> FALSE, candidate |-> FALSE,
     scanned |-> FALSE, store |-> Store(EmptyMap, EmptyMap, <<>>)]

\* lines 92-99 for the directory entry of probe.path
Classify ==
    /\ probe.path # ""
    /\ ~probe.classified
    /\ probe' = [probe EXCEPT
                    !.classified = TRUE,
                    !.candidate =
                        /\ IsKotlinTestFileName([name |-> basename(probe.path),
                                                 isDir |-> FALSE])
                        /\ MarkerTable[probe.content]]
    /\ UNCHANGED <<fs, workspaceFolders, storeVars, watcherEvents, resolves, findVars,
                   fsChanges, discovers, manifest, run, sinceDiscover, hist>>

\* resolveTestsInFile(probe.path) on an empty store, readFile giving probe.content
Scan ==
    /\ probe.path # ""
    /\ ~probe.scanned
    /\ HasKotlinExtension(probe.path)
    /\ probe' = [probe EXCEPT
                    !.scanned = TRUE,
                    !.store = BuildSubtree(removeTestsForFile(probe.store, probe.path),
                                           probe.path, probe.content)]
    /\ UNCHANGED <<fs, workspaceFolders, storeVars, watcherEvents, resolves, findVars,
                   fsChanges, discovers, manifest, run, sinceDiscover, hist>>

-----------------------------------------------------------------------------
Init ==
    /\ fs = [p \in FilePaths |->
                IF p = FooPath THEN CImport
                ELSE IF p = BarPath THEN Absent
                ELSE IF p = HelperPath THEN CHelper
                ELSE IF p = HidPath THEN CHid
                ELSE IF p = GenPath THEN CGen
                ELSE CScript]
    /\ workspaceFolders = [defined |-> TRUE, folders |-> <<Root>>]
    /\ testItems = EmptyMap
    /\ fileToTestItemsMap = EmptyMap
    /\ controllerItems = <<>>
    /\ watcherEvents = {}
    /\ resolves = [t \in Slots |-> IdleTask]
    /\ finds = {}
    /\ reads = {}
    /\ testFiles = EmptyMap
    /\ nextFind = 0
    /\ fsChanges = 0
    /\ discovers = 0
    /\ manifest = {"build.gradle"}
    /\ run = NoRun
    /\ probe = NoProbe
    /\ sinceDiscover = FALSE
    /\ hist = [p \in FilePaths |-> <<>>]

Next ==
    \/ \E p \in EditedPaths : \E c \in ContentsOf(p) \cup {Absent} : FsChange(p, c)
    \/ \E p \in FilePaths : WatcherFire(p)
    \/ \E t \in Slots : ReadFile(t)
    \/ \E t \in Slots : ResolveContinue(t)
    \/ DiscoverAllTests
    \/ \E f \in finds : ReaddirDone(f)
    \/ \E r \in reads : ClassifyReadDone(r)

Spec == Init /\ [][Next]_vars

-----------------------------------------------------------------------------
(* The rescans alone: file system events and resolveTestsInFile.           *)

NextRescan ==
    \/ \E p \in EditedPaths : \E c \in ContentsOf(p) \cup {Absent} : FsChange(p, c)
    \/ \E p \in FilePaths : WatcherFire(p)
    \/ \E t \in Slots : ReadFile(t)
    \/ \E t \in Slots : ResolveContinue(t)

SpecRescan == Init /\ [][NextRescan]_vars

-----------------------------------------------------------------------------
(* Runs over a discovered tree: the store starts as the rescans of the     *)
(* edited files leave it, and the host makes run requests over its items.  *)

EmptyStore == Store(EmptyMap, EmptyMap, <<>>)

\* the store after one completed rescan of each existing edited file
RescannedStore(files) ==
    LET foo == IF files[FooPath] = Absent THEN EmptyStore
               ELSE BuildSubtree(EmptyStore, FooPath, files[FooPath])
    IN  IF files[BarPath] = Absent THEN foo
        ELSE BuildSubtree(foo, BarPath, files[BarPath])

\* sequences over S of length 1..n
RECURSIVE SeqsUpTo(_, _)
SeqsUpTo(S, n) ==
    IF n = 0 THEN {}
    ELSE {<<x>> : x \in S}
         \cup {Append(q, x) : q \in SeqsUpTo(S, n - 1), x \in S}

InitRun ==
    /\ \E cFoo \in {Absent, CPlain}, cBar \in {CTwo, CEmpty} :
          /\ cFoo = Absent \/ cBar = CEmpty
          /\ fs = [p \in FilePaths |->
                      IF p = FooPath THEN cFoo
                      ELSE IF p = BarPath THEN cBar
                      ELSE IF p = HelperPath THEN CHelper
                      ELSE IF p = HidPath THEN CHid
                      ELSE IF p = GenPath THEN CGen
                      ELSE CScript]
          /\ testItems = RescannedStore(fs).testItems
          /\ fileToTestItemsMap = RescannedStore(fs).fileToTestItemsMap
          /\ controllerItems = RescannedStore(fs).controllerItems
    /\ workspaceFolders = [defined |-> TRUE, folders |-> <<Root>>]
    /\ watcherEvents = {}
    /\ resolves = [t \in Slots |-> IdleTask]
    /\ finds = {}
    /\ reads = {}
    /\ testFiles = EmptyMap
    /\ nextFind = 0
    /\ fsChanges = 0
    /\ discovers = 0
    /\ manifest \in {{}, {"build.gradle"}, {"build.gradle.kts"}}
    /\ run = NoRun
    /\ probe = NoProbe
    /\ sinceDiscover = FALSE
    /\ hist = [p \in FilePaths |-> <<>>]

\* request.exclude: at most MaxExclude items of the tree
Excludes == {e \in SUBSET DOMAIN testItems : Cardinality(e) <= MaxExclude}

\* the host requests a run of everything: request.include is undefined
RunAll ==
    /\ run.pc = "none"
    /\ \E exclude \in Excludes : RunHandler(FALSE, <<>>, exclude)

\* the host requests a run of a selection of at most MaxInclude items
RunSelected ==
    /\ run.pc = "none"
    /\ \E exclude \in Excludes, include \in SeqsUpTo(DOMAIN testItems, MaxInclude) :
          RunHandler(TRUE, include, exclude)

NextRun ==
    \/ RunAll
    \/ RunSelected
    \/ FsExistsGradle
    \/ FsExistsGradleKts
    \/ CancelRun
    \/ CloseWorkspace

SpecRun == InitRun /\ [][NextRun]_vars

-----------------------------------------------------------------------------
(* The classifier and the scanner over every file name and content of the  *)
(* model.                                                                  *)

ProbePaths == FilePaths \cup {SuitePath}

InitScan ==
    /\ fs = [p \in FilePaths |-> Absent]
    /\ workspaceFolders = [defined |-> TRUE, folders |-> <<Root>>]
    /\ testItems = EmptyMap
    /\ fileToTestItemsMap = EmptyMap
    /\ controllerItems = <<>>
    /\ watcherEvents = {}
    /\ resolves = [t \in Slots |-> IdleTask]
    /\ finds = {}
    /\ reads = {}
    /\ testFiles = EmptyMap
    /\ nextFind = 0
    /\ fsChanges = 0
    /\ discovers = 0
    /\ manifest = {}
    /\ run = NoRun
    /\ \E p \in ProbePaths, c \in AllContents :
          probe = [NoProbe EXCEPT !.path = p, !.content = c]
    /\ sinceDiscover = FALSE
    /\ hist = [p \in FilePaths |-> <<>>]

NextScan ==
    \/ Classify
    \/ Scan

SpecScan == InitScan /\ [][NextScan]_vars

-----------------------------------------------------------------------------
(* Properties.                                                             *)

\* the items a run has started
Started(r) == {r.events[i].id : i \in {j \in 1..Len(r.events) : r.events[j].op = "started"}}

NumFailed(r) == Cardinality({j \in 1..Len(r.events) : r.events[j].op = "failed"})

\* the ids of the passed events of a run, in order
PassedIds(r) ==
    LET passed == SelectSeq(r.events, LAMBDA e : e.op = "passed")
    IN  [i \in 1..Len(passed) |-> passed[i].id]

\* id and everything below it in the tree
SubtreeFrom(items, id) == Descendants(items, {id}, 2) \cap DOMAIN items

LeavesUnder(items, id) == {l \in SubtreeFrom(items, id) : items[l].children = <<>>}

\* C1: the leaves of the include set that are neither excluded nor below an
\* excluded node
C1_Expected(r) ==
    {l \in UNION {LeavesUnder(r.items, r.include[i]) : i \in 1..Len(r.include)} :
        ~\E e \in r.exclude : l \in SubtreeFrom(r.items, e)}

\* C1: a completed run with an include set dispatches exactly the leaves
\* reachable from the include set that are neither in the exclude set nor
\* descendants of one of its members (include Class, exclude Method A of
\* File > Class > {A, B}: exactly {B})
C1_ExclusionHonoured ==
    (run.pc = "ended" /\ run.included /\ ~run.cancelled)
        => Started(run) = C1_Expected(run)

\* C2: a run requested with no workspace folder open reports exactly one
\* failure for the whole run, whatever the number of leaves, and sends no
\* command to the build tool
C2_SingleFailure ==
    (run.pc = "ended" /\ run.noFolder /\ Started(run) # {})
        => (NumFailed(run) = 1 /\ run.sent = <<>>)

\* C3: when a rescan of a path that no other rescan overlapped completes,
\* the id index holds no id of the path outside the subtree just built, and
\* after a deletion the path has no entry in the file index
C3_NoStaleNodes ==
    \A p \in FilePaths : \A i \in 1..Len(hist[p]) :
        hist[p][i].clean
            => /\ hist[p][i].stale = {}
               /\ hist[p][i].content = Absent => ~hist[p][i].indexed

\* no asynchronous task is left
Quiescent ==
    /\ finds = {}
    /\ reads = {}
    /\ watcherEvents = {}
    /\ \A t \in Slots : resolves[t].pc = "idle"

\* C4: the candidate test files under the workspace root, by name and content
C4_Candidates ==
    {p \in FilePaths :
        /\ fs[p] # Absent
        /\ StartsWith(p, Root \o "/")
        /\ ~Includes(p, "/build/")
        /\ HasKotlinExtension(p)
        /\ Includes(basename(p), "Test")
        /\ MarkerTable[fs[p]]}

\* C4: once discoverAllTests has run and every task it started has completed,
\* with no file system event since, every candidate test file has its File
\* node in the Tree Store
C4_DiscoveryPopulates ==
    (sinceDiscover /\ Quiescent)
        => \A p \in C4_Candidates :
              /\ p \in DOMAIN fileToTestItemsMap
              /\ FileId(p) \in DOMAIN testItems

\* C5: the command the claim expects for a Method or a childless Class leaf
C5_ExpectedCommand(items, id) ==
    LET parentId == items[id].parent
    IN  IF items[parentId].parent # ""
        THEN "./gradlew test --tests " \o items[parentId].label \o "." \o items[id].label
        ELSE "./gradlew test --tests " \o items[id].label

\* C5: the command sent for a dispatched Method leaf names ClassName.methodName
\* and the one sent for a childless Class leaf names ClassName
C5_SelectorFromId ==
    \A i \in 1..Len(run.sent) :
        run.items[PassedIds(run)[i]].parent # ""
            => run.sent[i] = C5_ExpectedCommand(run.items, PassedIds(run)[i])

\* C6: the outer class of a file with a nested class gets no Method child for
\* the method declared in the nested class's body
C6_NestedMethodNotInOuter ==
    (probe.scanned /\ probe.content = CNested)
        => LET outer == FileId(probe.path) \o ".OuterTest"
           IN  (outer \o ".inner") \notin SeqRange(probe.store.testItems[outer].children)

\* C7: two rescans of a path in succession, neither overlapped by another
\* rescan of the path, that read the same content leave the same subtree for
\* the path: the same ids with the same labels, parents and children
C7_RescanIdempotent ==
    \A p \in FilePaths :
        (/\ Len(hist[p]) = 2
         /\ hist[p][1].clean
         /\ hist[p][2].clean
         /\ hist[p][1].content = hist[p][2].content)
            => hist[p][1].tree = hist[p][2].tree

\* C7: the second of two such rescans of an existing test file has completed
C7_Witness ==
    \E p \in FilePaths :
        /\ Len(hist[p]) = 2
        /\ hist[p][1].clean
        /\ hist[p][2].clean
        /\ hist[p][1].content = hist[p][2].content
        /\ hist[p][2].content # Absent
        /\ Cardinality(DOMAIN hist[p][2].tree) >= 3

\* C8: a file is pushed to a testFiles array only if its name contains Test
\* and its content has a test-framework marker
C8_ClassifierNeedsTestName ==
    \A k \in DOMAIN testFiles : \A i \in 1..Len(testFiles[k]) :
        Includes(basename(testFiles[k][i]), "Test")

\* C9: File(FooTest.kt) > Class(FooTest) > Method(testBar)
C9_FooTree ==
    LET fileId   == "kotlin-test:/w/FooTest.kt"
        classId  == "kotlin-test:/w/FooTest.kt.FooTest"
        methodId == "kotlin-test:/w/FooTest.kt.FooTest.testBar"
    IN  (fileId :> [label |-> "FooTest.kt", parent |-> "", children |-> <<classId>>])
        @@ (classId :> [label |-> "FooTest", parent |-> fileId, children |-> <<methodId>>])
        @@ (methodId :> [label |-> "testBar", parent |-> classId, children |-> <<>>])

\* C9, as stated: FooTest.kt holding only the class is not a candidate and
\* yields no node; with the import it is a candidate and yields
\* File(FooTest.kt) > Class(FooTest) > Method(testBar)
C9_AsStated ==
    (probe.path = FooPath /\ probe.classified /\ probe.scanned)
        => /\ probe.content = CPlain
                => (~probe.candidate /\ SubtreeIds(probe.store, FooPath) = {})
           /\ probe.content = CImport
                => (probe.candidate /\ SubtreeOf(probe.store, FooPath) = C9_FooTree)

\* C9, amended: FooTest.kt holding the class is a candidate with and without
\* the import, since its content holds the @Test annotation token, and a
\* rescan of it yields File(FooTest.kt) > Class(FooTest) > Method(testBar)
C9_CandidateEitherWay ==
    (probe.path = FooPath /\ probe.content \in {CPlain, CImport})
        => /\ probe.classified => probe.candidate
           /\ probe.scanned => SubtreeOf(probe.store, FooPath) = C9_FooTree

\* C9: the file without the import has been classified and scanned
C9_Witness ==
    /\ probe.path = FooPath
    /\ probe.content = CPlain
    /\ probe.classified
    /\ probe.scanned

\* C10: the leaves of every File node of the Tree Store
C10_AllLeaves ==
    UNION {LeavesUnder(run.items, id) :
             id \in UNION {SeqRange(fileToTestItemsMap[p]) : p \in DOMAIN fileToTestItemsMap}}

\* C10: a completed run with no include set and no exclusion dispatches every
\* leaf of every File node of the Tree Store
C10_RunEverything ==
    (run.pc = "ended" /\ ~run.included /\ run.exclude = {} /\ ~run.cancelled)
        => Started(run) = C10_AllLeaves

\* C11: in every reachable state of the Tree Store the id of every node that
\* has a parent is its parent's id, a dot and its own label: a Method's id is
\* prefixed by its Class's id and a Class's id by its File's id
C11_IdsPrefixedByParent ==
    \A id \in DOMAIN testItems :
        testItems[id].parent # ""
            => /\ StartsWith(id, testItems[id].parent \o ".")
               /\ id = testItems[id].parent \o "." \o testItems[id].label

\* C11: the store holds a Method under a Class under a File
C11_Witness ==
    \E id \in DOMAIN testItems :
        /\ testItems[id].parent \in DOMAIN testItems
        /\ testItems[testItems[id].parent].parent \in DOMAIN testItems
        /\ testItems[testItems[testItems[id].parent].parent].parent = ""

\* C12: the scan of a file whose class body is never closed completes: the
\* brace counting loop stops at the end of the content, the class body is the
\* content up to its end, and the method declared up to the last character of
\* the content is a Method of the class
C12_UnclosedBodyToEnd ==
    (probe.scanned /\ probe.content = COpen)
        => LET m       == ClassExec(COpen, 1)
               classId == FileId(probe.path) \o ".OpenTest"
           IN  /\ m.ok
               /\ ClassContent(COpen, m) = SubstringFrom(COpen, m.index)
               /\ classId \in DOMAIN probe.store.testItems
               /\ probe.store.testItems[classId].children = <<classId \o ".open">>

\* C12: a file whose class body is never closed has been scanned
C12_Witness ==
    /\ probe.scanned
    /\ probe.content = COpen
    /\ SubtreeIds(probe.store, probe.path) # {}

\* C13: once the cancellation token of a run is raised, every step of the run
\* keeps the events already reported, reports nothing but the passed or
\* failed outcome of the item that was being dispatched, takes no item from
\* the queue, and ends the run as soon as that dispatch completes
C13_NoStartAfterCancel ==
    [][run.cancelled
          => /\ Len(run'.events) >= Len(run.events)
             /\ SubSeq(run'.events, 1, Len(run.events)) = run.events
             /\ \A i \in (Len(run.events) + 1)..Len(run'.events) :
                   /\ run'.events[i].op \in {"passed", "failed"}
                   /\ run'.events[i].id = run.test
             /\ run'.queue = run.queue
             /\ run' # run
                   => \/ run'.pc = "ended"
                      \/ run.pc = "fsExists1" /\ run'.pc = "fsExists2"]_vars

\* C13: a run cancelled during a dispatch has ended with the outcome of that
\* item reported and items left in its queue
C13_Witness ==
    /\ run.cancelled
    /\ run.pc = "ended"
    /\ Len(run.queue) > 0
    /\ Len(run.events) = run.stopped + 1
    /\ run.events[run.stopped].op = "started"

\* C14: the leaves below the seeds of the queue that are neither excluded nor
\* below an excluded node
C14_Worklist(r) ==
    LET seeds == SeedQueue(r.included, r.include, r.roots)
    IN  {l \in UNION {LeavesUnder(r.items, seeds[i]) : i \in 1..Len(seeds)} :
            ~\E e \in r.exclude : l \in SubtreeFrom(r.items, e)}

\* C14: in a run that ended without cancellation every failure is reported
\* for the item started just before it, and every leaf of the worklist has
\* its own passed or failed outcome whatever failed before it
C14_FailureIsLocal ==
    (run.pc = "ended" /\ ~run.cancelled)
        => /\ \A i \in 1..Len(run.events) :
                 run.events[i].op = "failed"
                    => /\ i > 1
                       /\ run.events[i - 1] = Event("started", run.events[i].id, "")
           /\ \A l \in C14_Worklist(run) :
                 \E i \in 1..Len(run.events) :
                    /\ run.events[i].id = l
                    /\ run.events[i].op \in {"passed", "failed"}

\* C14: a run has ended without cancellation after a failed dispatch that was
\* followed by the dispatch of another leaf
C14_Witness ==
    /\ run.pc = "ended"
    /\ ~run.cancelled
    /\ \E i, j \in 1..Len(run.events) :
          /\ i < j
          /\ run.events[i].op = "failed"
          /\ run.events[j].id # run.events[i].id
          /\ run.events[j].op \in {"passed", "failed"}

\* C15: the candidate test files in a subdirectory of the workspace root that
\* is neither hidden nor a build-output directory
C15_OrdinaryCandidates ==
    {p \in C4_Candidates :
        /\ Includes(SubstringFrom(p, Len(Root) + 2), "/")
        /\ ~Includes(p, "/.")}

C16_TreeOf(p, content) ==
    IF content = Absent THEN SubtreeOf(EmptyStore, p)
    ELSE SubtreeOf(BuildSubtree(EmptyStore, p, content), p)

\* C16: when two overlapping rescans of a path that read different contents
\* of the existing file have both completed, the subtree stored for the path is the one derived
\* from the content read by the rescan that completed last
C16_LastWriteWins ==
    \A p \in FilePaths :
        (/\ Len(hist[p]) = 2
         /\ ~hist[p][1].clean
         /\ ~hist[p][2].clean
         /\ hist[p][1].content # hist[p][2].content
         /\ hist[p][1].content # Absent
         /\ hist[p][2].content # Absent
         /\ Pending(resolves, p) = {})
            => hist[p][2].tree = C16_TreeOf(p, hist[p][2].content)

\* C17: whether a handler other than the rescan in slot t runs in this step:
\* discoverAllTests is called, another rescan starts, or another rescan or a
\* directory task of discoverAllTests resumes
C17_OtherTaskRuns(t) ==
    \/ discovers' # discovers
    \/ finds' # finds
    \/ \E u \in Slots \ {t} :
          \/ resolves[u].pc = "idle" /\ resolves'[u].pc # "idle"
          \/ resolves[u].pc = "resume" /\ resolves'[u].pc = "idle"

\* C17: the last completed rescan of p left a subtree for p
C17_HadSubtree(p) == hist[p] # <<>> /\ hist[p][Len(hist[p])].indexed

\* C17: from the removal of the old subtree of p by a rescan to the end of
\* its rebuild no other task runs: while a rescan of an existing file that
\* had a subtree is between its removeTestsForFile and its continuation, with
\* the subtree removed, no step is a step of another rescan or of
\* discoverAllTests
C17_RemoveRebuildAtomic ==
    [][\A t \in Slots :
          (/\ resolves[t].pc # "idle"
           /\ fs[resolves[t].path] # Absent
           /\ C17_HadSubtree(resolves[t].path)
           /\ resolves[t].path \notin DOMAIN fileToTestItemsMap)
              => ~C17_OtherTaskRuns(t)]_vars

\* C18: what the Tree Store holds for path q: its entry in the file index and
\* the items of the id index whose ids are q's File id or are prefixed by it
C18_EntriesOf(q) ==
    [index |-> IF q \in DOMAIN fileToTestItemsMap THEN fileToTestItemsMap[q] ELSE <<>>,
     items |-> [id \in IdsOfPath(CurrentStore, q) |-> testItems[id]]]

\* C18: this step is a step of a rescan of p: its call up to readFile, or its
\* continuation
C18_RescanStep(p) ==
    \/ p \in watcherEvents /\ p \notin watcherEvents'
    \/ \E t \in Slots :
          /\ resolves[t].path = p
          /\ resolves[t].pc = "resume"
          /\ resolves'[t].pc = "idle"

C19_StartThenOneOutcome ==
    /\ \A i \in 1..Len(run.events) :
          IF i % 2 = 1
          THEN run.events[i].op = "started"
          ELSE /\ run.events[i].op \in {"passed", "failed"}
               /\ run.events[i].id = run.events[i - 1].id
    /\ run.pc \in {"fsExists1", "fsExists2"}
          => /\ Len(run.events) % 2 = 1
             /\ run.events[Len(run.events)].id = run.test
    /\ run.pc = "ended" => Len(run.events) % 2 = 0

\* C19: a run has ended after dispatching two different items, one of them
\* through the awaits of a dispatch
C19_Witness ==
    /\ run.pc = "ended"
    /\ Len(run.events) >= 4
    /\ run.events[1].id # run.events[3].id
    /\ \E i \in 1..Len(run.events) : run.events[i].op = "passed"

\* C20: the number of times a run has started item l
C20_Starts(r, l) ==
    Cardinality({i \in 1..Len(r.events) :
                    r.events[i].op = "started" /\ r.events[i].id = l})

\* C20: within a run every leaf is dispatched at most once, whatever the
\* include set: also when it lists a node and one of its descendants, or the
\* same node twice
C20_AtMostOnce ==
    \A l \in DOMAIN run.items : C20_Starts(run, l) <= 1
====
